---- MODULE Spec2Model ----
(***************************************************************************)
(* The Kubernetes resource wrappers of                                     *)
(* internal/provider/kubernetes/resources: Deployment, DaemonSet and       *)
(* ClusterRole.  Each wraps a typed client handle and the last known body  *)
(* of one object and offers Apply, Get, Delete, Clone, ID, ComputeStatus   *)
(* (ClusterRole also Ensure and Update), plus one paginated lister per     *)
(* kind.                                                                   *)
(*                                                                         *)
(* Three specifications share the variables:                               *)
(*   Spec        the lifecycle calls of up to two resource instances       *)
(*               against one API server object, a step per client request, *)
(*               interleaved with each other and with a foreign writer;    *)
(*   SpecList    ListDeployments / ListDaemonSets / ListClusterRoles       *)
(*               against a paging server;                                  *)
(*   SpecStatus  ComputeStatus over bounded bodies and times.              *)
(***************************************************************************)
EXTENDS Integers, Sequences, FiniteSets

\* ------------------------------------------------------------------ bounds

\* The server's revision counter stops here: at most MaxRev writes per run.
MaxRev == 2
\* The paging server serves at most this many pages to one listing.
MaxPages == 3
\* Items per page.
MaxPageLen == 2
\* Times (now, deletion timestamps) range over 0..MaxTime.
MaxTime == 2
\* Replica / node counters range over 0..MaxCount.
MaxCount == 2

\* ------------------------------------------------------------- vocabulary

Kinds == {"Deployment", "DaemonSet", "ClusterRole"}

\* The kind string of ID() and the noun of the conflict annotation.
KindLabel(k) ==
    CASE k = "Deployment" -> "deployment"
      [] k = "DaemonSet" -> "daemon set"
      [] OTHER -> "cluster role"

\* The namespace the client handle is bound to: Deployments(ns) and
\* DaemonSets(ns) are namespaced endpoints, ClusterRoles() is cluster-scoped.
EndpointNS(k) == IF k = "ClusterRole" THEN "" ELSE "ns"

\* The one object name the lifecycle calls are about.
TheName == "app"

\* The one client handle of a run.
TheClient == "client"

\* Contents of a body (the spec, the rules).
Data == {"d1", "d2"}

\* Values of the single label the claims look at; "" stands for no label.
Owners == {"juju", "other"}
LabelVals == {""} \cup Owners

\* Namespaces a caller may stamp on a body: the endpoint's own or another.
ArgNamespaces(k) == {EndpointNS(k), "elsewhere"}

Insts == {1, 2}

\* References to label maps on the Go heap; NilRef is the nil map.
NilRef == 0
Refs == 1..Cardinality(Insts)

VARIABLES
    kind,       \* the kind of the run's resources
    server,     \* the object stored under TheName at the endpoint (a set: empty or one object)
    rev,        \* the server's revision counter (source of resourceVersion)
    inst,       \* the resource instances
    last,       \* the call that has just returned, until its caller reads it
    heap,       \* the label maps the instances' bodies point to
    lister,     \* the state of one List* call
    status      \* the input and output of one ComputeStatus call

vars == <<kind, server, rev, inst, last, heap, lister, status>>

\* ----------------------------------------------------------------- bodies

\* A local body (the embedded appsv1.Deployment / appsv1.DaemonSet /
\* rbacv1.ClusterRole): metadata name, namespace and resourceVersion (0 is
\* the empty string), the contents, and a reference to the label map.
Body(nm, ns, rv, d, l) ==
    [name |-> nm, namespace |-> ns, rv |-> rv, data |-> d, labels |-> l]

\* What a dead (not yet constructed) instance holds.
ZeroBody == Body("", "", 0, "d1", NilRef)

\* The label value behind a reference; a nil map reads as no label.
Deref(h, ref) == IF ref = NilRef THEN "" ELSE h[ref]

\* runtime.Encode of a body, and the object a typed request carries: the
\* body by value, the label map's contents in place of the reference.
Wire(h, b) == [b EXCEPT !.labels = Deref(h, b.labels)]

\* The references the live instances other than i hold.
RefsOfOthers(in, i) ==
    {in[j].body.labels : j \in {k \in Insts \ {i} : in[k].live}} \ {NilRef}

\* A map allocated now: a reference no other instance holds.
FreshRef(in, i) ==
    CHOOSE r \in Refs \ RefsOfOthers(in, i) :
        \A q \in Refs \ RefsOfOthers(in, i) : r <= q

\* The body decoded from a server answer: every field the answer's, the
\* labels a newly allocated map (nil when the answer has none).
Decode(obj, ref) == [obj EXCEPT !.labels = IF obj.labels = "" THEN NilRef ELSE ref]

\* The heap with an answer's labels written to the new map.
HeapWith(h, obj, ref) == IF obj.labels = "" THEN h ELSE [h EXCEPT ![ref] = obj.labels]

\* Maps no live instance points to are collected.
Collect(h, in) ==
    [r \in Refs |->
        IF \E j \in Insts : in[j].live /\ in[j].body.labels = r THEN h[r] ELSE ""]

\* ID(): the kind string, then the name and namespace of the current body.
ID(k, b) == <<k, b.name, b.namespace>>

\* ------------------------------------------------------------------ errors

NoErr == [class |-> "nil", cause |-> "", about |-> <<>>]

\* errors.Trace(err): the server's error, unclassified.
Traced(cause) == [class |-> "Traced", cause |-> cause, about |-> <<>>]

\* errors.Annotatef(errConflict, "<kind label> %q", name)
ConflictError(k, nm) ==
    [class |-> "ConflictError", cause |-> "conflict", about |-> <<KindLabel(k), nm>>]

\* errors.NewNotFound(err, ...)
NotFoundError == [class |-> "NotFoundError", cause |-> "notfound", about |-> <<>>]

\* errors.AlreadyExistsf("cluster role %q not controlled by juju", name)
AlreadyExistsError(nm) ==
    [class |-> "AlreadyExistsError", cause |-> "", about |-> <<"cluster role", nm>>]

\* errors.Annotatef(err, "checking for existing cluster role %q", name): the
\* error keeps its class and cause and gains the name.
Annotated(e, nm) == [e EXCEPT !.about = <<"cluster role", nm>>]

\* ------------------------------------------------------------- API server
\* The orchestrator behind the client handle.  It stores at most one object
\* under TheName, hands out a new resourceVersion with every change, checks
\* the resourceVersion a write carries, and never rewrites an object's
\* identity.  An answer is [resp, obj, srv, rev]: the answer's class, the
\* object returned, and the store and revision counter afterwards.

Answer(resp, obj, srv, r) == [resp |-> resp, obj |-> obj, srv |-> srv, rev |-> r]

\* The empty object of a failed answer.
ZeroObject == Body("", "", 0, "d1", "")

Failed(resp, srv, r) == Answer(resp, ZeroObject, srv, r)

Stored(srv) == CHOOSE o \in srv : TRUE

\* A request whose body names a namespace other than the endpoint's is
\* refused; an empty namespace is the endpoint's.
NamespaceFits(k, b) == b.namespace \in {"", EndpointNS(k)}

\* A write carrying a resourceVersion is conditional on it.
VersionFits(o, b) == b.rv = 0 \/ b.rv = o.rv

\* get(name)
SrvGet(srv, r) ==
    IF srv = {} THEN Failed("notfound", srv, r)
    ELSE Answer("ok", Stored(srv), srv, r)

\* Strategic merge: a field the patch carries replaces the stored one, a
\* field it omits (a nil or empty label map) is left alone.
Merge(o, b) ==
    [o EXCEPT !.data = b.data,
              !.labels = IF b.labels = "" THEN @ ELSE b.labels]

\* A changed object gets the next revision; an unchanged one is not
\* written.
Commit(o, new, r) ==
    IF [new EXCEPT !.rv = o.rv] = o
    THEN Answer("ok", o, {o}, r)
    ELSE Answer("ok", [new EXCEPT !.rv = r + 1], {[new EXCEPT !.rv = r + 1]}, r + 1)

\* patch(name, mergeBody, fieldManager)
SrvPatch(k, srv, r, b) ==
    IF srv = {} THEN Failed("notfound", srv, r)
    ELSE IF ~NamespaceFits(k, b) THEN Failed("invalid", srv, r)
    ELSE IF ~VersionFits(Stored(srv), b) THEN Failed("conflict", srv, r)
    ELSE Commit(Stored(srv), Merge(Stored(srv), b), r)

\* create(body, fieldManager)
SrvCreate(k, srv, r, b) ==
    IF srv # {} THEN Failed("exists", srv, r)
    ELSE IF ~NamespaceFits(k, b) THEN Failed("invalid", srv, r)
    ELSE LET o == [b EXCEPT !.namespace = EndpointNS(k), !.rv = r + 1]
         IN  Answer("ok", o, {o}, r + 1)

\* update(body, fieldManager): a full replace
SrvUpdate(k, srv, r, b) ==
    IF srv = {} THEN Failed("notfound", srv, r)
    ELSE IF ~NamespaceFits(k, b) THEN Failed("invalid", srv, r)
    ELSE IF ~VersionFits(Stored(srv), b) THEN Failed("conflict", srv, r)
    ELSE Commit(Stored(srv), [b EXCEPT !.namespace = EndpointNS(k)], r)

\* delete(name, cascadePolicy)
SrvDelete(srv, r) ==
    IF srv = {} THEN Failed("notfound", srv, r)
    ELSE Answer("ok", ZeroObject, {}, r)

\* A request lost on the way: the transport's error, the store untouched.
Unavailable(srv, r) == Failed("unavailable", srv, r)

\* k8serrors.IsNotFound / IsConflict on an answer
IsNotFound(a) == a.resp = "notfound"
IsConflict(a) == a.resp = "conflict"

\* -------------------------------------------------------------- instances
\* An instance is a *Deployment, *DaemonSet or *ClusterRole: its body and,
\* while a call is in progress, the place of the call (pc), the call (op)
\* with the requests it issued and their answers (log), the claims an
\* Ensure was given, the cleanup closures it registered, and whether the
\* call is an Apply begun right after a creating Apply (again).  err is the
\* error a call returns.

\* The options a request carries: PatchOptions, CreateOptions and
\* UpdateOptions name the field manager, DeleteOptions the propagation
\* policy, GetOptions nothing.
RequestOptions(req) ==
    CASE req \in {"patch", "create", "update"} -> "JujuFieldManager"
      [] req = "delete" -> "DefaultPropagationPolicy"
      [] OTHER -> ""

Entry(req, a) == [req |-> req, resp |-> a.resp, opt |-> RequestOptions(req)]

ClaimSets == {"owned", "never", "broken"}

Dead ==
    [live |-> FALSE, body |-> ZeroBody, pc |-> "idle", op |-> "none",
     claims |-> "owned", err |-> NoErr, log |-> <<>>, cleanups |-> 0,
     again |-> FALSE]

\* NewDeployment / NewDaemonSet stamp name and namespace on the body given;
\* NewClusterRole stamps the name only.  A nil body is the zero body.
NewResource(k, ns, nm, in) ==
    IF k = "ClusterRole"
    THEN [in EXCEPT !.name = nm]
    ELSE [in EXCEPT !.name = nm, !.namespace = ns]

\* The instance a call leaves behind together with the heap.
Out(me, h) == [me |-> me, heap |-> h]

\* return err
Return(me, h, e) == Out([me EXCEPT !.pc = "idle", !.err = e], h)

\* A store that decodes the answer into the body in place: a field the
\* answer omits keeps the body's old value.
StoreInto(me, h, a, ref) ==
    LET obj == [a.obj EXCEPT !.labels = IF @ = "" THEN Deref(h, me.body.labels) ELSE @]
    IN  Out([me EXCEPT !.body = Decode(obj, ref), !.pc = "idle", !.err = NoErr],
            HeapWith(h, obj, ref))

\* d.Deployment = *res; return nil
Store(me, h, a, ref) ==
    Out([me EXCEPT !.body = Decode(a.obj, ref), !.pc = "idle", !.err = NoErr],
        HeapWith(h, a.obj, ref))

\* An Apply that patches again when its create finds the object there.
ApplySettleRetry(k, me, h, a, ref) ==
    IF a.resp = "exists" THEN Out([me EXCEPT !.pc = "patch"], h)
    ELSE IF IsConflict(a) THEN Return(me, h, ConflictError(k, me.body.name))
    ELSE IF a.resp # "ok" THEN Return(me, h, Traced(a.resp))
    ELSE Store(me, h, a, ref)

\* Apply, from the conflict test on: the answer is the patch's, or the
\* create's when the fallback ran.
ApplySettle(k, me, h, a, ref) ==
    IF IsConflict(a) THEN Return(me, h, ConflictError(k, me.body.name))
    ELSE IF a.resp # "ok" THEN Return(me, h, Traced(a.resp))
    ELSE Store(me, h, a, ref)

\* Apply without the fallback: a not-found patch is returned as it is.
ApplyAfterPatchNoFallback(k, me, h, a, ref) == ApplySettle(k, me, h, a, ref)

\* Apply with the not-found test negated: the create follows a patch that
\* found the object.
ApplyAfterPatchNegated(k, me, h, a, ref) ==
    IF ~IsNotFound(a) THEN Out([me EXCEPT !.pc = "create"], h)
    ELSE ApplySettle(k, me, h, a, ref)

\* Apply after the patch's answer: not found falls through to create.
ApplyAfterPatch(k, me, h, a, ref) ==
    IF IsNotFound(a) THEN Out([me EXCEPT !.pc = "create"], h)
    ELSE ApplySettle(k, me, h, a, ref)

\* Get after the answer.
GetSettle(me, h, a, ref) ==
    IF IsNotFound(a) THEN Return(me, h, NotFoundError)
    ELSE IF a.resp # "ok" THEN Return(me, h, Traced(a.resp))
    ELSE Store(me, h, a, ref)

\* Update after the answer.
UpdateSettle(me, h, a, ref) ==
    IF IsNotFound(a) THEN Return(me, h, NotFoundError)
    ELSE IF a.resp # "ok" THEN Return(me, h, Traced(a.resp))
    ELSE Store(me, h, a, ref)

\* A Delete that takes an object already gone for a success.
DeleteSettleSilent(me, h, a) ==
    IF IsNotFound(a) THEN Return(me, h, NoErr)
    ELSE IF a.resp # "ok" THEN Return(me, h, Traced(a.resp))
    ELSE Return(me, h, NoErr)

\* Delete after the answer: errors.Trace(nil) is nil.
DeleteSettle(me, h, a) ==
    IF IsNotFound(a) THEN Return(me, h, NotFoundError)
    ELSE IF a.resp # "ok" THEN Return(me, h, Traced(a.resp))
    ELSE Return(me, h, NoErr)

\* RunClaims(claims...).Assert(obj): the verdict and the error of the
\* claims on a live object.
ClaimError == [class |-> "ClaimError", cause |-> "", about |-> <<>>]

AssertClaims(c, obj) ==
    CASE c = "owned" -> [ok |-> obj.labels = "juju", err |-> NoErr]
      [] c = "never" -> [ok |-> FALSE, err |-> NoErr]
      [] OTHER -> [ok |-> FALSE, err |-> ClaimError]

\* Ensure without the ownership stop: an object that fails the claims is
\* updated all the same.
EnsureAfterGetUngated(me, h, a) ==
    IF IsNotFound(a) THEN Out([me EXCEPT !.cleanups = 1, !.pc = "patch"], h)
    ELSE IF a.resp # "ok" THEN Return(me, h, Annotated(Traced(a.resp), me.body.name))
    ELSE IF AssertClaims(me.claims, a.obj).err # NoErr
    THEN Return(me, h, Annotated(ClaimError, a.obj.name))
    ELSE Out([me EXCEPT !.cleanups = 1, !.pc = "update"], h)

\* Ensure with the Get made on the receiver: what the server holds is
\* written into the body before the claims are looked at.
EnsureAfterGetOnReceiver(me, h, a) ==
    LET got == IF a.resp = "ok"
               THEN [me EXCEPT !.body = [a.obj EXCEPT !.labels = me.body.labels]]
               ELSE me
    IN  IF IsNotFound(a) THEN Out([got EXCEPT !.cleanups = 1, !.pc = "patch"], h)
        ELSE IF a.resp # "ok" THEN Return(got, h, Annotated(Traced(a.resp), me.body.name))
        ELSE IF AssertClaims(me.claims, a.obj).err # NoErr
        THEN Return(got, h, Annotated(ClaimError, a.obj.name))
        ELSE IF ~AssertClaims(me.claims, a.obj).ok
        THEN Return(got, h, AlreadyExistsError(me.body.name))
        ELSE Out([got EXCEPT !.cleanups = 1, !.pc = "update"], h)

\* Ensure rolled into Apply: an object found and claimed is patched.
EnsureAfterGetAlwaysApply(me, h, a) ==
    IF IsNotFound(a) THEN Out([me EXCEPT !.cleanups = 1, !.pc = "patch"], h)
    ELSE IF a.resp # "ok" THEN Return(me, h, Annotated(Traced(a.resp), me.body.name))
    ELSE IF AssertClaims(me.claims, a.obj).err # NoErr
    THEN Return(me, h, Annotated(ClaimError, a.obj.name))
    ELSE IF ~AssertClaims(me.claims, a.obj).ok
    THEN Return(me, h, AlreadyExistsError(me.body.name))
    ELSE Out([me EXCEPT !.cleanups = 1, !.pc = "patch"], h)

\* Ensure with the cleanup registered on entry, before the Get.
EnsureAfterGetEarlyCleanup(me, h, a) ==
    LET reg == [me EXCEPT !.cleanups = 1]
    IN  IF IsNotFound(a) THEN Out([reg EXCEPT !.pc = "patch"], h)
        ELSE IF a.resp # "ok" THEN Return(reg, h, Annotated(Traced(a.resp), me.body.name))
        ELSE IF AssertClaims(me.claims, a.obj).err # NoErr
        THEN Return(reg, h, Annotated(ClaimError, a.obj.name))
        ELSE IF ~AssertClaims(me.claims, a.obj).ok
        THEN Return(reg, h, AlreadyExistsError(me.body.name))
        ELSE Out([reg EXCEPT !.pc = "update"], h)

\* Ensure up to the mutating call: existing.Get on a copy, the claims on
\* what it fetched, then the cleanup and the branch to Apply or Update.
EnsureAfterGet(me, h, a) ==
    LET existingName == IF a.resp = "ok" THEN a.obj.name ELSE me.body.name
        getErr == IF IsNotFound(a) THEN NotFoundError
                  ELSE IF a.resp # "ok" THEN Traced(a.resp)
                  ELSE NoErr
        verdict == IF getErr = NoErr THEN AssertClaims(me.claims, a.obj)
                   ELSE [ok |-> TRUE, err |-> getErr]
    IN  IF verdict.err # NoErr /\ verdict.err.class # "NotFoundError"
        THEN Return(me, h, Annotated(verdict.err, existingName))
        ELSE IF ~verdict.ok
        THEN Return(me, h, AlreadyExistsError(me.body.name))
        ELSE IF verdict.err.class = "NotFoundError"
        THEN Out([me EXCEPT !.cleanups = 1, !.pc = "patch"], h)
        ELSE Out([me EXCEPT !.cleanups = 1, !.pc = "update"], h)

\* ------------------------------------------------------- lifecycle steps
\* One action per client request; the code between two requests runs with
\* the request before it.  A request is answered by the server or lost in
\* transport.  A call that returns is recorded in last, and the caller
\* reads the result before anything else happens.

Nothing ==
    [inst |-> 0, op |-> "none", err |-> NoErr, log |-> <<>>, claims |-> "owned",
     cleanups |-> 0, again |-> FALSE, before |-> ZeroObject, after |-> ZeroObject,
     answer |-> ZeroObject, srvBefore |-> {}, idBefore |-> <<>>, idAfter |-> <<>>]

\* The instance as a call begins.
Begin(me, op, c, ag) ==
    IF me.pc = "idle"
    THEN [me EXCEPT !.op = op, !.claims = c, !.again = ag]
    ELSE me

Logged(me, req, a) == [me EXCEPT !.log = Append(@, Entry(req, a))]

\* An instance at rest keeps its body only.
AtRest(me) == IF me.pc = "idle" THEN [Dead EXCEPT !.live = TRUE, !.body = me.body] ELSE me

\* What the caller of a returned call can observe: the error, the requests
\* issued, the body before and after the last step, the server's last
\* answer and the server as it was before the last step.
Record(i, a, out) ==
    [inst |-> i, op |-> out.me.op, err |-> out.me.err, log |-> out.me.log,
     claims |-> out.me.claims, cleanups |-> out.me.cleanups, again |-> out.me.again,
     before |-> Wire(heap, inst[i].body), after |-> Wire(out.heap, out.me.body),
     answer |-> a.obj, srvBefore |-> server,
     idBefore |-> ID(kind, inst[i].body), idAfter |-> ID(kind, out.me.body)]

\* The state after a step of instance i that got answer a and left out.
Step(i, a, out) ==
    /\ a.rev <= MaxRev
    /\ inst' = [inst EXCEPT ![i] = AtRest(out.me)]
    /\ last' = IF out.me.pc = "idle" THEN Record(i, a, out) ELSE Nothing
    /\ heap' = Collect(out.heap, inst')
    /\ server' = a.srv
    /\ rev' = a.rev
    /\ UNCHANGED <<kind, lister, status>>

\* The call that just returned was instance i's Apply, and it created the
\* object.
JustCreated(i) ==
    /\ last.inst = i /\ last.op = "Apply" /\ last.err = NoErr
    /\ Len(last.log) = 2

\* Instance i may begin a call.  The caller drives its resources one call at
\* a time: no call of either instance is in progress and no result is
\* waiting to be read.  Other clients of the server act between any two
\* requests of a call (OtherPut, OtherDelete).
Callable(i) ==
    /\ inst[i].live
    /\ \A j \in Insts : inst[j].pc = "idle"
    /\ last = Nothing

\* Apply: encode, patch.  Also the Apply that Ensure calls (pc = "patch"),
\* and the Apply called again right after an Apply that created the object.
ApplyPatch(i) ==
    /\ \/ Callable(i)
       \/ inst[i].live /\ inst[i].pc = "patch" /\ last = Nothing
       \/ JustCreated(i)
    /\ \E a \in {SrvPatch(kind, server, rev, Wire(heap, inst[i].body)),
                 Unavailable(server, rev)} :
        LET me == Logged(Begin(inst[i], "Apply", inst[i].claims, JustCreated(i)),
                         "patch", a)
        IN  Step(i, a, ApplyAfterPatch(kind, me, heap, a, FreshRef(inst, i)))

\* Apply: the create after a not-found patch.  The server may also answer a
\* create with a conflict.
ApplyCreate(i) ==
    /\ inst[i].live /\ inst[i].pc = "create" /\ last = Nothing
    /\ \E a \in {SrvCreate(kind, server, rev, Wire(heap, inst[i].body)),
                 Unavailable(server, rev), Failed("conflict", server, rev)} :
        Step(i, a, ApplySettle(kind, Logged(inst[i], "create", a), heap, a,
                               FreshRef(inst, i)))

\* Get
Get(i) ==
    /\ Callable(i)
    /\ \E a \in {SrvGet(server, rev), Unavailable(server, rev)} :
        LET me == Logged(Begin(inst[i], "Get", inst[i].claims, FALSE), "get", a)
        IN  Step(i, a, GetSettle(me, heap, a, FreshRef(inst, i)))

\* Delete
Delete(i) ==
    /\ Callable(i)
    /\ \E a \in {SrvDelete(server, rev), Unavailable(server, rev)} :
        LET me == Logged(Begin(inst[i], "Delete", inst[i].claims, FALSE), "delete", a)
        IN  Step(i, a, DeleteSettle(me, heap, a))

\* DeleteOrphan: returns nil and asks the server nothing.
DeleteOrphan(i) ==
    /\ Callable(i)
    /\ Step(i, Answer("ok", ZeroObject, server, rev),
            Return(Begin(inst[i], "DeleteOrphan", inst[i].claims, FALSE), heap, NoErr))

\* ClusterRole.Update.  Also the Update that Ensure calls (pc = "update").
Update(i) ==
    /\ kind = "ClusterRole"
    /\ \/ Callable(i)
       \/ inst[i].live /\ inst[i].pc = "update" /\ last = Nothing
    /\ \E a \in {SrvUpdate(kind, server, rev, Wire(heap, inst[i].body)),
                 Unavailable(server, rev)} :
        LET me == Logged(Begin(inst[i], "Update", inst[i].claims, FALSE), "update", a)
        IN  Step(i, a, UpdateSettle(me, heap, a, FreshRef(inst, i)))

\* ClusterRole.Ensure, up to its mutating call.
Ensure(i) ==
    /\ kind = "ClusterRole"
    /\ Callable(i)
    /\ \E c \in ClaimSets :
       \E a \in {SrvGet(server, rev), Unavailable(server, rev)} :
        LET me == Logged(Begin(inst[i], "Ensure", c, FALSE), "get", a)
        IN  Step(i, a, EnsureAfterGet(me, heap, a))

\* The caller of an Ensure that has returned runs the cleanup list it was
\* given: func() { _ = r.Delete(ctx) }, the error of the Delete dropped.
RunCleanups(i) ==
    /\ last.inst = i /\ last.op = "Ensure" /\ last.cleanups = 1
    /\ \E a \in {SrvDelete(server, rev), Unavailable(server, rev)} :
        LET me == Logged(Begin(inst[i], "Cleanup", inst[i].claims, FALSE), "delete", a)
            d == DeleteSettle(me, heap, a)
        IN  Step(i, a, Out([d.me EXCEPT !.err = NoErr], d.heap))

\* The caller reads the result of the call that returned.
Returned ==
    /\ last # Nothing
    /\ last' = Nothing
    /\ UNCHANGED <<kind, server, rev, inst, heap, lister, status>>

\* ------------------------------------------------------------- the caller

\* The bodies a caller hands to a constructor: no resourceVersion, any
\* contents, no label or the caller's own.
InBodies(k) ==
    {Body("", ns, 0, d, l) : ns \in ArgNamespaces(k), d \in Data, l \in {"", "juju"}}

\* NewDeployment / NewDaemonSet / NewClusterRole as instance i.
Construct(k, in0, h, i, ns, in) ==
    LET ref == FreshRef(in0, i)
        me == [Dead EXCEPT !.live = TRUE,
                           !.body = Decode(NewResource(k, ns, TheName, in), ref)]
    IN  Out(me, HeapWith(h, in, ref))

\* Clone: clone := *d; return &clone.  The struct is copied by value, the
\* label map it points to is not.
CloneOf(me) == [Dead EXCEPT !.live = TRUE, !.body = me.body]

\* c := r.Clone(), r being instance 1 and c instance 2.
Clone ==
    /\ Callable(1)
    /\ ~inst[2].live
    /\ inst' = [inst EXCEPT ![2] = CloneOf(inst[1])]
    /\ UNCHANGED <<kind, server, rev, last, heap, lister, status>>

\* A second resource for the same object, built by the constructor.
NewSecond ==
    /\ Callable(1)
    /\ ~inst[2].live
    /\ \E ns \in ArgNamespaces(kind), in \in InBodies(kind) :
        LET out == Construct(kind, inst, heap, 2, ns, in)
        IN  /\ inst' = [inst EXCEPT ![2] = out.me]
            /\ heap' = Collect(out.heap, inst')
    /\ UNCHANGED <<kind, server, rev, last, lister, status>>

\* The caller assigns new contents to the body (r.Rules = ..., d.Spec = ...).
SetData(i) ==
    /\ Callable(i)
    /\ \E d \in Data :
        /\ d # inst[i].body.data
        /\ inst' = [inst EXCEPT ![i].body.data = d]
    /\ UNCHANGED <<kind, server, rev, last, heap, lister, status>>

\* The caller writes into the body's label map in place
\* (r.Labels[key] = value).
MutateLabels(i) ==
    /\ Callable(i)
    /\ inst[i].body.labels # NilRef
    /\ \E v \in Owners :
        /\ v # heap[inst[i].body.labels]
        /\ heap' = [heap EXCEPT ![inst[i].body.labels] = v]
    /\ UNCHANGED <<kind, server, rev, inst, last, lister, status>>

\* ---------------------------------------------------------- other writers
\* Another client of the same server creates or replaces the object ...
OtherPut ==
    /\ rev < MaxRev /\ last = Nothing
    /\ \E d \in Data, l \in LabelVals :
        server' = {Body(TheName, EndpointNS(kind), rev + 1, d, l)}
    /\ rev' = rev + 1
    /\ UNCHANGED <<kind, inst, last, heap, lister, status>>

\* ... or deletes it.
OtherDelete ==
    /\ server # {} /\ last = Nothing
    /\ server' = {}
    /\ UNCHANGED <<kind, rev, inst, last, heap, lister, status>>

\* ---------------------------------------------------------- specification

NoLister == [pc |-> "off"]
NoStatus == [pc |-> "off"]

\* A fresh server, and one resource just constructed.
Init ==
    /\ kind \in Kinds
    /\ server = {}
    /\ rev = 0
    /\ \E ns \in ArgNamespaces(kind), in \in InBodies(kind) :
        LET out == Construct(kind, [i \in Insts |-> Dead], [r \in Refs |-> ""], 1, ns, in)
        IN  /\ inst = [i \in Insts |-> IF i = 1 THEN out.me ELSE Dead]
            /\ heap = out.heap
    /\ last = Nothing
    /\ lister = NoLister
    /\ status = NoStatus

Next ==
    \/ \E i \in Insts : ApplyPatch(i)
    \/ \E i \in Insts : ApplyCreate(i)
    \/ \E i \in Insts : Get(i)
    \/ \E i \in Insts : Delete(i)
    \/ \E i \in Insts : DeleteOrphan(i)
    \/ \E i \in Insts : Update(i)
    \/ \E i \in Insts : Ensure(i)
    \/ \E i \in Insts : RunCleanups(i)
    \/ \E i \in Insts : SetData(i)
    \/ \E i \in Insts : MutateLabels(i)
    \/ Returned
    \/ Clone
    \/ NewSecond
    \/ OtherPut
    \/ OtherDelete

Spec == Init /\ [][Next]_vars

\* ----------------------------------------------------------------- lister
\* ListDeployments / ListDaemonSets / ListClusterRoles against a server
\* that answers every list call as it likes: an error, or a page of items
\* and a continue token.  The items of a listing are distinct: item j of
\* the n-th answer is named <<n, j>>.

Tokens == {"t1", "t2"}

\* What client.List returns: err, or res.Items and res.Continue.
ListAnswers(n) ==
    {[ok |-> FALSE, items |-> <<>>, continue |-> ""]} \cup
    {[ok |-> TRUE,
      items |-> [j \in 1..m |-> Body(<<n, j>>, EndpointNS(kind), 1, "d1", "")],
      continue |-> t] : m \in 0..MaxPageLen, t \in {""} \cup Tokens}

\* *NewDeployment(client, namespace, item.Name, &item), and the same for the
\* other kinds: the wrapper of one item.
Wrap(k, client, ns, item) ==
    [client |-> client, body |-> NewResource(k, ns, item.name, item)]

\* A loop that keeps only the last page.
ListLoopOverwrite(k, l, res) ==
    IF ~res.ok
    THEN [l EXCEPT !.pc = "done", !.ret = <<>>, !.err = Traced("unavailable")]
    ELSE LET items == [j \in 1..Len(res.items) |-> Wrap(k, l.client, l.ns, res.items[j])]
         IN  IF res.continue = ""
             THEN [l EXCEPT !.pc = "done", !.items = items, !.ret = items]
             ELSE [l EXCEPT !.items = items, !.token = res.continue]

\* A loop that returns what it has when a page fails.
ListLoopPartial(k, l, res) ==
    IF ~res.ok
    THEN [l EXCEPT !.pc = "done", !.ret = l.items, !.err = Traced("unavailable")]
    ELSE LET items == l.items \o
                 [j \in 1..Len(res.items) |-> Wrap(k, l.client, l.ns, res.items[j])]
         IN  IF res.continue = ""
             THEN [l EXCEPT !.pc = "done", !.items = items, !.ret = items]
             ELSE [l EXCEPT !.items = items, !.token = res.continue]

\* A loop that gives up when the server hands back the token just sent.
ListLoopRepeatStop(k, l, res) ==
    IF ~res.ok
    THEN [l EXCEPT !.pc = "done", !.ret = <<>>, !.err = Traced("unavailable")]
    ELSE LET items == l.items \o
                 [j \in 1..Len(res.items) |-> Wrap(k, l.client, l.ns, res.items[j])]
         IN  IF res.continue = "" \/ res.continue = l.token
             THEN [l EXCEPT !.pc = "done", !.items = items, !.ret = items]
             ELSE [l EXCEPT !.items = items, !.token = res.continue]

\* One turn of the for loop, res being the answer to client.List(ctx, opts):
\* an error returns nil and the error; otherwise the items are appended, and
\* an empty token ends the loop while any other becomes opts.Continue.
ListLoop(k, l, res) ==
    IF ~res.ok
    THEN [l EXCEPT !.pc = "done", !.ret = <<>>, !.err = Traced("unavailable")]
    ELSE LET items == l.items \o
                 [j \in 1..Len(res.items) |-> Wrap(k, l.client, l.ns, res.items[j])]
         IN  IF res.continue = ""
             THEN [l EXCEPT !.pc = "done", !.items = items, !.ret = items]
             ELSE [l EXCEPT !.items = items, !.token = res.continue]

\* The list call with the token sent and the answer received.
Served(l, res) == [l EXCEPT !.served = Append(@, [sent |-> l.token, res |-> res])]

\* A list call the server answers with a page.
ListPage ==
    /\ lister.pc = "call"
    /\ Len(lister.served) < MaxPages
    /\ \E res \in ListAnswers(Len(lister.served) + 1) :
        /\ res.ok
        /\ lister' = ListLoop(kind, Served(lister, res), res)
    /\ UNCHANGED <<kind, server, rev, inst, last, heap, status>>

\* A list call the server answers with an error.
ListError ==
    /\ lister.pc = "call"
    /\ Len(lister.served) < MaxPages
    /\ \E res \in ListAnswers(Len(lister.served) + 1) :
        /\ ~res.ok
        /\ lister' = ListLoop(kind, Served(lister, res), res)
    /\ UNCHANGED <<kind, server, rev, inst, last, heap, status>>

\* The call ListX(ctx, client, namespace, opts): ListClusterRoles takes no
\* namespace; opts.Continue is the caller's.
InitList ==
    /\ kind \in Kinds
    /\ server = {} /\ rev = 0
    /\ inst = [i \in Insts |-> Dead]
    /\ heap = [r \in Refs |-> ""]
    /\ last = Nothing
    /\ status = NoStatus
    /\ \E ns \in ArgNamespaces(kind), t \in {""} \cup Tokens :
        lister = [pc |-> "call", client |-> TheClient,
                  ns |-> IF kind = "ClusterRole" THEN "" ELSE ns,
                  first |-> t, token |-> t, items |-> <<>>, served |-> <<>>,
                  ret |-> <<>>, err |-> NoErr]

NextList == ListPage \/ ListError

SpecList == InitList /\ [][NextList]_vars

\* ---------------------------------------------------------- ComputeStatus

\* A nil DeletionTimestamp.
NoTime == -1

Times == 0..MaxTime
Counts == 0..MaxCount

\* ComputeStatus with the deletion time replaced by the time of the call.
ComputeStatusNow(k, b, now) ==
    IF b.deletionTimestamp # NoTime
    THEN [msg |-> "", state |-> "Terminated", time |-> now, err |-> NoErr]
    ELSE IF k = "ClusterRole"
    THEN [msg |-> "", state |-> "Active", time |-> now, err |-> NoErr]
    ELSE IF (k = "Deployment" /\ b.readyReplicas = b.replicas)
            \/ (k = "DaemonSet" /\ b.numberReady = b.desiredNumberScheduled)
    THEN [msg |-> "", state |-> "Active", time |-> now, err |-> NoErr]
    ELSE [msg |-> "", state |-> "Waiting", time |-> now, err |-> NoErr]

\* ComputeStatus(ctx, now) of the three kinds on the body's deletion
\* timestamp and status counters.
ComputeStatus(k, b, now) ==
    IF b.deletionTimestamp # NoTime
    THEN [msg |-> "", state |-> "Terminated", time |-> b.deletionTimestamp, err |-> NoErr]
    ELSE IF k = "ClusterRole"
    THEN [msg |-> "", state |-> "Active", time |-> now, err |-> NoErr]
    ELSE IF (k = "Deployment" /\ b.readyReplicas = b.replicas)
            \/ (k = "DaemonSet" /\ b.numberReady = b.desiredNumberScheduled)
    THEN [msg |-> "", state |-> "Active", time |-> now, err |-> NoErr]
    ELSE [msg |-> "", state |-> "Waiting", time |-> now, err |-> NoErr]

\* The status part of a body; a Deployment has the replica counters, a
\* DaemonSet the node counters, a ClusterRole neither.
StatusBodies(k) ==
    {[deletionTimestamp |-> d, replicas |-> r, readyReplicas |-> rr,
      desiredNumberScheduled |-> n, numberReady |-> nr] :
        d \in {NoTime} \cup Times,
        r \in IF k = "Deployment" THEN Counts ELSE {0},
        rr \in IF k = "Deployment" THEN Counts ELSE {0},
        n \in IF k = "DaemonSet" THEN Counts ELSE {0},
        nr \in IF k = "DaemonSet" THEN Counts ELSE {0}}

NoOutput == [msg |-> "", state |-> "", time |-> 0, err |-> NoErr]

\* r.ComputeStatus(ctx, now)
ComputeStatusCall ==
    /\ status.pc \in {"in", "out"}
    /\ \E now \in Times :
        status' = [status EXCEPT !.pc = "out", !.now = now,
                                 !.out = ComputeStatus(kind, status.body, now)]
    /\ UNCHANGED <<kind, server, rev, inst, last, heap, lister>>

InitStatus ==
    /\ kind \in Kinds
    /\ server = {} /\ rev = 0
    /\ inst = [i \in Insts |-> Dead]
    /\ heap = [r \in Refs |-> ""]
    /\ last = Nothing
    /\ lister = NoLister
    /\ \E b \in StatusBodies(kind) :
        status = [pc |-> "in", body |-> b, now |-> 0, out |-> NoOutput]

NextStatus == ComputeStatusCall

SpecStatus == InitStatus /\ [][NextStatus]_vars

\* ------------------------------------------------------------ properties

Req(r, a) == [req |-> r, resp |-> a, opt |-> RequestOptions(r)]

\* The requests of the Apply inside a call: Ensure's log begins with its Get.
ApplyLog(op, l) == IF op = "Ensure" /\ Len(l) > 0 THEN Tail(l) ELSE l

C2_ConflictSurfaced ==
    (/\ last.inst # 0
     /\ last.op \in {"Apply", "Update", "Ensure"}
     /\ last.log[Len(last.log)].resp = "conflict")
    => /\ last.err = ConflictError(kind, TheName)
       /\ last.after = last.before

\* C3: an Ensure whose Get finds the object and whose claims are not
\* satisfied, without error, by the object found returns AlreadyExistsError
\* naming the object, having issued the Get and nothing else, and the server
\* object is unchanged.
C3_ClaimGating ==
    [][\A i \in Insts : \A c \in ClaimSets :
        (/\ Callable(i)
         /\ server # {}
         /\ AssertClaims(c, Stored(server)) = [ok |-> FALSE, err |-> NoErr]
         /\ \/ last'.inst = i /\ last'.op = "Ensure" /\ last'.claims = c
               /\ last'.log[1] = Req("get", "ok")
            \/ inst'[i].op = "Ensure" /\ inst'[i].claims = c
               /\ inst'[i].log[1] = Req("get", "ok"))
        => /\ last'.inst = i
           /\ last'.err = AlreadyExistsError(inst[i].body.name)
           /\ last'.log = <<Req("get", "ok")>>
           /\ server' = server]_vars

\* C3 witness: an Ensure stopped by the claims on an object that exists.
C3_Witness ==
    /\ last.op = "Ensure" /\ last.err.class = "AlreadyExistsError"
    /\ server # {} /\ last.claims \in {"owned", "never"}

\* C4 (as claimed): no request of an Ensure changes a server object that
\* does not satisfy the Ensure's claims when the request arrives.
C4_OwnershipSafe ==
    [][\A i \in Insts :
        (/\ inst[i].op = "Ensure"
         /\ inst'[i] # inst[i]
         /\ server # {}
         /\ server' # server)
        => AssertClaims(inst[i].claims, Stored(server)).ok]_vars

\* C8: an Apply called right after an Apply that created the object, and
\* answered by the server, succeeds and leaves the body and the server
\* object as the first Apply left them.
C8_ApplyIdempotent ==
    (last.op = "Apply" /\ last.again /\ last.log[Len(last.log)].resp # "unavailable")
    => /\ last.err = NoErr
       /\ last.after = last.before
       /\ server = last.srvBefore
       /\ server = {last.after}

\* C8 witness: the second Apply has returned.
C8_Witness == last.op = "Apply" /\ last.again /\ last.err = NoErr

\* C9 (as claimed): the bodies of a resource and its clone are independent:
\* no step changes both.
C9_CloneIndependent ==
    [][(inst[1].live /\ inst[2].live)
        => ~(/\ Wire(heap', inst'[1].body) # Wire(heap, inst[1].body)
             /\ Wire(heap', inst'[2].body) # Wire(heap, inst[2].body))]_vars

\* C10: after a successful Apply, Get or Update (Ensure's among them) the
\* body is the object the server returned to the call's last request.
C10_BodyMirrorsServer ==
    (last.op \in {"Apply", "Get", "Update", "Ensure"} /\ last.err = NoErr)
    => last.after = last.answer

\* C10 witness: a Get replaced a body that carried a label with an object
\* that carries none.
C10_Witness ==
    /\ last.op = "Get" /\ last.err = NoErr
    /\ last.before.labels # "" /\ last.answer.labels = ""

\* The items of the pages served, in page order.
RECURSIVE PagesItems(_)
PagesItems(sv) ==
    IF sv = <<>> THEN <<>>
    ELSE PagesItems(SubSeq(sv, 1, Len(sv) - 1)) \o sv[Len(sv)].res.items

\* C5: a listing that follows a chain of pages to its empty token made one
\* list call per page, the first with the caller's options and each later
\* one with the token of the page before, and returns the items of all
\* pages in page order, none dropped and none twice, each wrapped with the
\* client handle given and, for the namespaced kinds, the namespace given.
C5_PaginationComplete ==
    (lister.pc = "done" /\ lister.err = NoErr)
    => LET sv == lister.served
           all == PagesItems(sv)
       IN  /\ Len(sv) >= 1
           /\ sv[1].sent = lister.first
           /\ \A n \in 2..Len(sv) : sv[n].sent = sv[n - 1].res.continue
           /\ \A n \in 1..Len(sv) : sv[n].res.ok
           /\ \A n \in 1..Len(sv) : (sv[n].res.continue = "") <=> (n = Len(sv))
           /\ Len(lister.ret) = Len(all)
           /\ \A j \in 1..Len(all) :
                /\ lister.ret[j].client = TheClient
                /\ lister.ret[j].body.name = all[j].name
                /\ lister.ret[j].body =
                     [all[j] EXCEPT !.namespace =
                         IF kind = "ClusterRole" THEN @ ELSE lister.ns]
           /\ \A j1, j2 \in 1..Len(lister.ret) :
                lister.ret[j1].body.name = lister.ret[j2].body.name => j1 = j2

\* C5 witness: three pages of 2, 2 and 1 items, then the five items returned.
C5_Witness ==
    /\ lister.pc = "done" /\ lister.err = NoErr
    /\ Len(lister.served) = 3
    /\ Len(lister.served[1].res.items) = 2
    /\ Len(lister.served[2].res.items) = 2
    /\ Len(lister.served[3].res.items) = 1
    /\ Len(lister.ret) = 5
    /\ kind # "ClusterRole" /\ lister.ns # EndpointNS(kind)

\* C6: a listing one of whose list calls failed returns that error and no
\* items, and the failed call is the last one it made.
C6_PaginationAbort ==
    /\ (lister.pc = "done" /\ lister.err # NoErr)
       => /\ lister.ret = <<>>
          /\ lister.err = Traced("unavailable")
          /\ ~lister.served[Len(lister.served)].res.ok
    /\ \A n \in 1..Len(lister.served) :
        ~lister.served[n].res.ok
        => n = Len(lister.served) /\ lister.pc = "done" /\ lister.err # NoErr

\* C6 witness: the third call failed after two pages with items.
C6_Witness ==
    /\ lister.pc = "done" /\ lister.err # NoErr
    /\ Len(lister.served) = 3
    /\ Len(lister.served[1].res.items) > 0
    /\ Len(lister.served[2].res.items) > 0

\* The counters ComputeStatus compares, by kind.
ReadyCount(k, b) == IF k = "Deployment" THEN b.readyReplicas ELSE b.numberReady
DesiredCount(k, b) == IF k = "Deployment" THEN b.replicas ELSE b.desiredNumberScheduled

\* C7: for a Deployment or DaemonSet ComputeStatus returns Terminated at
\* the deletion timestamp whenever one is set, whatever now and the
\* counters are; otherwise Active at now when the ready counter equals the
\* desired counter, and Waiting at now when they differ.
C7_StatusDerivation ==
    (status.pc = "out" /\ kind \in {"Deployment", "DaemonSet"})
    => LET b == status.body
       IN  /\ status.out.err = NoErr
           /\ b.deletionTimestamp # NoTime
              => /\ status.out.state = "Terminated"
                 /\ status.out.time = b.deletionTimestamp
           /\ (b.deletionTimestamp = NoTime /\ ReadyCount(kind, b) = DesiredCount(kind, b))
              => status.out.state = "Active" /\ status.out.time = status.now
           /\ (b.deletionTimestamp = NoTime /\ ReadyCount(kind, b) # DesiredCount(kind, b))
              => status.out.state = "Waiting" /\ status.out.time = status.now

\* C7 witness: a deleted DaemonSet with equal counters, asked at another time.
C7_Witness ==
    /\ status.pc = "out" /\ kind = "DaemonSet"
    /\ status.body.deletionTimestamp # NoTime
    /\ status.body.deletionTimestamp # status.now
    /\ status.body.numberReady = status.body.desiredNumberScheduled
    /\ status.out.state = "Terminated"

\* C11: no step of an Ensure that is still in progress or that returns an
\* error changes the receiver's body, so the body after a failed Ensure is
\* the body the Ensure was called with; what its Get fetched is not in it.
C11_FailedEnsureKeepsBody ==
    [][\A i \in Insts :
        (/\ inst[i].live
         /\ \/ inst[i].op = "Ensure"
            \/ inst'[i].op = "Ensure"
            \/ last'.inst = i /\ last'.op = "Ensure"
         /\ ~(last'.inst = i /\ last'.op = "Ensure" /\ last'.err = NoErr))
        => Wire(heap', inst'[i].body) = Wire(heap, inst[i].body)]_vars

\* C11 witness: an Ensure stopped by the claims although its Get fetched an
\* object whose contents differ from the receiver's.
C11_Witness ==
    /\ last.op = "Ensure" /\ last.err.class = "AlreadyExistsError"
    /\ last.answer.data # last.before.data
    /\ last.after = last.before

\* C12 (as claimed): when the cleanup list an Ensure returned is run and
\* the server answers its delete, the object is on the server afterwards
\* exactly if it was there when the Ensure read it: present if the Ensure's
\* Get found it, absent if the Get reported not-found.
C12_EnsureRevertible ==
    [][(/\ last.op = "Ensure"
        /\ last'.op = "Cleanup"
        /\ last'.log[1].resp # "unavailable")
       => ((server' = {}) <=> (last.log[1].resp = "notfound"))]_vars

\* C13 (as claimed): a write (Apply or Update) by an instance whose body
\* carries an older resourceVersion than the server's object, the other
\* instance holding that newer object, is rejected when the server answers
\* it: the caller gets ConflictError and the server keeps the newer object.
C13_LostUpdateProtected ==
    (/\ last.inst \in Insts
     /\ last.op \in {"Apply", "Update"}
     /\ last.log[Len(last.log)].resp # "unavailable"
     /\ last.before.rv # 0
     /\ last.srvBefore # {}
     /\ Stored(last.srvBefore).rv # last.before.rv
     /\ inst[3 - last.inst].live
     /\ Wire(heap, inst[3 - last.inst].body) = Stored(last.srvBefore))
    => /\ last.err = ConflictError(kind, TheName)
       /\ server = last.srvBefore

\* C14: a Delete, on any kind, has issued exactly one delete request, which
\* carries the default propagation policy; answered not-found it returns
\* NotFoundError, answered ok it returns no error, and in every case the
\* body is what it was.
C14_DeleteOnAbsent ==
    last.op = "Delete"
    => /\ Len(last.log) = 1
       /\ last.log[1].req = "delete"
       /\ last.log[1].opt = "DefaultPropagationPolicy"
       /\ last.log[1].resp = "notfound" => last.err = NotFoundError
       /\ last.log[1].resp = "ok" => last.err = NoErr
       /\ last.after = last.before

\* C14 witness: a Delete returned NotFoundError; nothing was stored.
C14_Witness ==
    /\ last.op = "Delete" /\ last.srvBefore = {}
    /\ last.err = NotFoundError /\ server = {}

\* C15 (as claimed): the ID() of every ClusterRole resource, however it was
\* built and whatever calls it has made, has the empty namespace.
C15_ClusterScopedID ==
    kind = "ClusterRole"
    => \A i \in Insts : inst[i].live => ID(kind, inst[i].body)[3] = ""

Mutating == {"patch", "create", "update"}

\* C17: an Ensure about to issue a mutating request already holds its one
\* cleanup; the list an Ensure returns holds one closure exactly if the
\* Ensure issued a mutating request, answered well or not, and none when
\* it stopped at a Get error, a claim error or AlreadyExistsError; the
\* closure, when run, issues one delete.
C17_RollbackRegistration ==
    /\ \A i \in Insts :
        (inst[i].op = "Ensure" /\ inst[i].pc \in {"patch", "create", "update"})
        => inst[i].cleanups = 1
    /\ last.op = "Ensure"
       => /\ last.cleanups \in {0, 1}
          /\ (last.cleanups = 1)
             <=> (\E n \in 1..Len(last.log) : last.log[n].req \in Mutating)
          /\ (\/ last.err.class \in {"AlreadyExistsError", "ClaimError"}
              \/ Len(last.log) = 1)
             => last.cleanups = 0
    /\ last.op = "Cleanup" => last.log = <<Req("delete", last.log[1].resp)>>

\* C17 witness: the Ensure's only mutating request was lost on the way, and
\* the cleanup is in the list it returns.
C17_Witness ==
    /\ last.op = "Ensure" /\ last.cleanups = 1
    /\ last.log = <<Req("get", "notfound"), Req("patch", "unavailable")>>

\* The one answer a call goes on after without returning it: not-found to
\* the patch of Apply, and, inside Ensure, to the Get.
FallsThrough(op, e) ==
    /\ e.resp = "notfound"
    /\ e.req \in (IF op = "Ensure" THEN {"get", "patch"} ELSE {"patch"})

\* C18: a Get, a Delete and an Update have issued one request when they
\* return, an Apply one patch and, exactly after a not-found patch, one
\* create; in any call an answer other than ok is followed by another
\* request only if it is the not-found that Apply (or Ensure's Get) falls
\* through on, and an error answer to the last request is the error the
\* call returns.
C18_NoInternalRetry ==
    /\ \A i \in Insts : \A n \in 1..Len(inst[i].log) :
        (inst[i].pc # "idle" /\ inst[i].log[n].resp # "ok")
        => FallsThrough(inst[i].op, inst[i].log[n])
    /\ last.op \in {"Get", "Delete", "Update"}
       => /\ Len(last.log) = 1
          /\ last.log[1].req = (CASE last.op = "Get" -> "get"
                                  [] last.op = "Delete" -> "delete"
                                  [] OTHER -> "update")
    /\ last.op = "Apply"
       => /\ Len(last.log) \in {1, 2}
          /\ last.log[1].req = "patch"
          /\ (Len(last.log) = 2) <=> (last.log[1].resp = "notfound")
          /\ Len(last.log) = 2 => last.log[2].req = "create"
    /\ last.op \in {"Get", "Delete", "Update", "Apply", "Ensure"}
       => /\ \A n \in 1..(Len(last.log) - 1) :
                last.log[n].resp # "ok" => FallsThrough(last.op, last.log[n])
          /\ last.log[Len(last.log)].resp # "ok"
             => /\ last.err # NoErr
                /\ last.err.cause = last.log[Len(last.log)].resp
                /\ server = last.srvBefore

\* C18 witness: the object appeared between the patch and the create of an
\* Apply; the create's already-exists answer is what Apply returns.
C18_Witness ==
    /\ last.op = "Apply" /\ last.err = Traced("exists")
    /\ last.log = <<Req("patch", "notfound"), Req("create", "exists")>>

\* C19 (as claimed): the ID() of a resource is the same after every step
\* as before it: no Apply, Get, Update, Ensure, Delete or DeleteOrphan, and
\* nothing else, changes the ID() the resource was constructed with.
C19_IdentityStable ==
    [][\A i \in Insts :
        inst[i].live => ID(kind, inst'[i].body) = ID(kind, inst[i].body)]_vars

\* An answer that ends a listing: an error, or a page with an empty token.
Terminal(res) == ~res.ok \/ res.continue = ""

\* C20: a listing has returned exactly if the answer to its latest list
\* call was an error or a page with an empty token; after any other answer
\* it is about to call again with the token received, however many pages
\* it has read and whether or not it has seen the token before.
C20_ListerTermination ==
    LET sv == lister.served
    IN  /\ (lister.pc = "done") <=> (Len(sv) > 0 /\ Terminal(sv[Len(sv)].res))
        /\ \A n \in 1..(Len(sv) - 1) : ~Terminal(sv[n].res)
        /\ (lister.pc # "done")
           => /\ lister.pc = "call"
              /\ lister.token = IF Len(sv) = 0 THEN lister.first
                                ELSE sv[Len(sv)].res.continue

\* C20 witness: every page so far came with the token the caller started
\* with, and the listing is still calling.
C20_Witness ==
    /\ lister.pc = "call"
    /\ Len(lister.served) = MaxPages
    /\ lister.first = "t1"
    /\ \A n \in 1..Len(lister.served) : lister.served[n].res.continue = "t1"

====
